---- MODULE Spec2Model ----
(***************************************************************************)
(* A model of olive2022.py: the Deployment Waiter (stage2), the            *)
(* image-to-deployment pipeline (convert), launch, and the identity both   *)
(* derive from a locator.                                                  *)
(*                                                                         *)
(* Text (answers typed by the operator, credentials, registry names,       *)
(* bytes read from the socket) is modelled as sequences of one-character   *)
(* strings, and a locator as the sequence of its lexemes, so that lower(), *)
(* startswith(), split() and urlparse() are computed the way the Python    *)
(* code computes them.                                                     *)
(***************************************************************************)
EXTENDS Integers, Sequences, FiniteSets, TLC

VARIABLES
    \* ---- stage2 ----
    wpc,        \* position of stage2: "Polling", "Connected" or "Exited"
    endpoint,   \* the environment: how vmi-vnc:5900 answers the probes
    installed,  \* the environment: the viewers which() finds on PATH
    dry_run,    \* args.dry_run of the stage2 invocation (TRUE: ["echo"])
    handshake,  \* the bytes the last recv(3) returned
    outcome,    \* history: how the last probe ended, "none" before the first
    attempts,   \* history: number of probes made (saturates at AttemptsCap)
    connects,   \* history: number of Polling -> Connected transitions
    launched,   \* history: argv of every viewer process started
    wexit,      \* exit status of the stage2 process, NoValue while it runs
    \* ---- convert ----
    run,        \* per convert process: its arguments, locals and position
    dirs,       \* the file system: directories that exist
    files,      \* the file system: files that exist, as <<directory, name>>
    images,     \* the local docker image store: tag -> image, or NoValue
    pushed,     \* the registry: tag -> image, or NoValue
    recipes,    \* the RECIPES directory: identity -> recipe, or NoValue
    \* ---- the identity of a locator ----
    given,      \* the two locators handed to launch and to convert
    launches,   \* per locator: what launch passed to sinfonia-tier3
    converts,   \* per locator: the identity convert derived and printed
    \* ---- the compression report ----
    sizes,      \* sizes in bytes of disk.img and disk.qcow2
    report      \* what lines 179-181 computed and printed

wvars == <<wpc, endpoint, installed, dry_run, handshake, outcome, attempts,
           connects, launched, wexit>>

cvars == <<run, dirs, files, images, pushed, recipes>>

pvars == <<given, launches, converts, sizes, report>>

vars == <<wpc, endpoint, installed, dry_run, handshake, outcome, attempts,
          connects, launched, wexit, run, dirs, files, images, pushed, recipes,
          given, launches, converts, sizes, report>>

\* Python's None, for a name, a text, an identity and an exit status.
NoValue == "None"

NoText == <<"None">>

NoIdentity == <<"None", "None", "None">>

\* The exit status of a process that has not ended.
Running == 0 - 1

(***************************************************************************)
(* Text helpers.                                                           *)
(***************************************************************************)

\* bytes.startswith / str.startswith
StartsWith(s, p) ==
    /\ Len(s) >= Len(p)
    /\ \A i \in 1..Len(p) : s[i] = p[i]

Min(a, b) == IF a <= b THEN a ELSE b

\* All sequences over S of length 0..n.
SeqsUpTo(S, n) == UNION { [1..k -> S] : k \in 0..n }

(***************************************************************************)
(* stage2: wait for the VNC server, then start a viewer.                   *)
(***************************************************************************)

\* Largest number of refused attempts of a scripted endpoint.
MaxRefuse == 3

\* The history counter `attempts` stops counting here; the loop goes on.
AttemptsCap == MaxRefuse + 2

\* sockfd.recv(3): at most this many bytes are read.
RecvLen == 3

RFB == <<"R", "F", "B">>

Bytes == {"R", "F", "B", "x"}

\* What recv(3) can return: any 0..3 bytes.
RecvResults == SeqsUpTo(Bytes, RecvLen)

\* Outcomes of one iteration's connect-and-read.
\*   gaierror, refused, timeout : the three exceptions the loop catches
\*   oserror                    : any other OSError (reset, unreachable, ...)
\*   data                       : recv returned `bytes`
ProbeOutcomes ==
    { [kind |-> k, bytes |-> <<>>] :
        k \in {"gaierror", "refused", "timeout", "oserror"} }
    \cup { [kind |-> "data", bytes |-> b] : b \in RecvResults }

\* The endpoint is either scripted (refuses the first `refuse` connection
\* attempts, then answers RFB) or arbitrary (any outcome at any attempt).
Endpoints ==
    { [kind |-> "scripted", refuse |-> n] : n \in 0..MaxRefuse }
    \cup { [kind |-> "any", refuse |-> 0] }

OutcomesAt(ep, n) ==
    IF ep.kind = "scripted"
    THEN IF n < ep.refuse
         THEN { [kind |-> "refused", bytes |-> <<>>] }
         ELSE { [kind |-> "data", bytes |-> RFB] }
    ELSE ProbeOutcomes

\* An except clause that leaves out ConnectionRefusedError.
CaughtNoRefused(o) == o.kind \in {"gaierror", "timeout"}

\* except (socket.gaierror, ConnectionRefusedError, socket.timeout): pass
Caught(o) == o.kind \in {"gaierror", "refused", "timeout"}

\* A check of the first two bytes only.
ReadyOnTwoBytes(o) == o.kind = "data" /\ StartsWith(o.bytes, <<"R", "F">>)

\* if handshake.startswith(b"RFB"): break
Ready(o) == o.kind = "data" /\ StartsWith(o.bytes, RFB)

Viewers == {"remote-viewer", "gvncviewer", "vncviewer"}

\* for app in ["gvncviewer", "vncviewer"]
OtherViewers == <<"gvncviewer", "vncviewer">>

\* args.dry_run + [viewer, address]
Argv(dry, viewer, address) ==
    (IF dry THEN <<"echo">> ELSE <<>>) \o <<viewer, address>>

\* A selection that takes the last of the other viewers found.
ViewerCommandLastFound(dry, avail) ==
    IF "remote-viewer" \in avail
    THEN Argv(dry, "remote-viewer", "vnc://vmi-vnc:5900")
    ELSE LET found == { i \in 1..Len(OtherViewers) : OtherViewers[i] \in avail }
         IN  IF found = {}
             THEN <<>>
             ELSE LET last == CHOOSE i \in found : \A j \in found : i >= j
                  IN  Argv(dry, OtherViewers[last], "vmi-vnc:0")

\* The command stage2 runs once connected, <<>> when no viewer is found.
ViewerCommand(dry, avail) ==
    IF "remote-viewer" \in avail
    THEN Argv(dry, "remote-viewer", "vnc://vmi-vnc:5900")
    ELSE LET found == { i \in 1..Len(OtherViewers) : OtherViewers[i] \in avail }
         IN  IF found = {}
             THEN <<>>
             ELSE LET first == CHOOSE i \in found : \A j \in found : i <= j
                  IN  Argv(dry, OtherViewers[first], "vmi-vnc:0")


(***************************************************************************)
(* convert: fetch a VMNetX package, build and publish a containerDisk,     *)
(* write the Sinfonia recipe.                                              *)
(***************************************************************************)

RunIds == {"A", "B"}

\* str.lower(), on the characters the operator's answers are made of
LowerChar(c) ==
    CASE c = "Y" -> "y"
      [] c = "E" -> "e"
      [] c = "S" -> "s"
      [] c = "N" -> "n"
      [] c = "O" -> "o"
      [] OTHER -> c

Lower(s) == [i \in 1..Len(s) |-> LowerChar(s[i])]

\* A prompt that takes "y" for yes.
IsYesLoose(answer) == StartsWith(Lower(answer), <<"y">>)

\* input("Ok to push non-restricted image? [yes/no] ").lower().startswith("yes")
IsYes(answer) == StartsWith(Lower(answer), <<"y", "e", "s">>)

\* Index of the first occurrence of character c in s, 0 when there is none.
FirstIndex(s, c) ==
    LET at == { i \in 1..Len(s) : s[i] = c }
    IN  IF at = {} THEN 0 ELSE CHOOSE i \in at : \A j \in at : i <= j

\* Index of the last occurrence of character c in s, 0 when there is none.
LastIndex(s, c) ==
    LET at == { i \in 1..Len(s) : s[i] = c }
    IN  IF at = {} THEN 0 ELSE CHOOSE i \in at : \A j \in at : i >= j

\* A split at the last occurrence of c, s.rsplit(c, 1).
Split1Last(s, c) ==
    LET i == LastIndex(s, c)
    IN  IF i = 0
        THEN <<s>>
        ELSE <<SubSeq(s, 1, i - 1), SubSeq(s, i + 1, Len(s))>>

\* A split that pads a missing second part with the empty text.
Split1Padded(s, c) ==
    LET i == FirstIndex(s, c)
    IN  IF i = 0
        THEN <<s, <<>>>>
        ELSE <<SubSeq(s, 1, i - 1), SubSeq(s, i + 1, Len(s))>>

\* s.split(c, 1): one part when c does not occur, else the text before the
\* first c and the text after it.
Split1(s, c) ==
    LET i == FirstIndex(s, c)
    IN  IF i = 0
        THEN <<s>>
        ELSE <<SubSeq(s, 1, i - 1), SubSeq(s, i + 1, Len(s))>>

DigitValue(c) ==
    CASE c = "0" -> 0 [] c = "1" -> 1 [] c = "2" -> 2 [] c = "3" -> 3
      [] c = "4" -> 4 [] c = "5" -> 5 [] c = "6" -> 6 [] c = "7" -> 7
      [] c = "8" -> 8 [] c = "9" -> 9

\* int(text) of a text of decimal digits
RECURSIVE ParseInt(_)
ParseInt(s) ==
    IF Len(s) = 0
    THEN 0
    ELSE 10 * ParseInt(SubSeq(s, 1, Len(s) - 1)) + DigitValue(s[Len(s)])

\* domain.findtext(tag, default=...)
FindText(value, default) == IF value = NoText THEN default ELSE value

\* cpus = int(domain.findtext("vcpu", default="1"))
Cpus(domain) == ParseInt(FindText(domain.vcpu, <<"1">>))

\* memory = int(domain.findtext("memory", default="65536")) // 1024
Memory(domain) ==
    ParseInt(FindText(domain.memory, <<"6", "5", "5", "3", "6">>)) \div 1024

\* A savings figure truncated toward zero.
CompressionTruncated(pre, post) ==
    LET num == 100 * pre - 100 * post
    IN  IF num >= 0 THEN num \div pre ELSE 0 - ((0 - num) \div pre)

\* compression = 100 - 100 * DISK_QCOW.stat().st_size // DISK_IMG.stat().st_size
Compression(pre, post) == 100 - ((100 * post) \div pre)

\* A gate that lets the generic name "Virtual Machine" through.
PlaceholderEmptyOnly(name) == name = ""

\* if compression != 0: print(f"compression savings {compression}%")
Printed(compression) == compression # 0

\* while vmi_fullname in ["", "Virtual Machine"]
Placeholder(name) == name \in {"", "Virtual Machine"}

\* str.join: the text a sequence of lexemes spells.
RECURSIVE Join(_)
Join(s) == IF Len(s) = 0 THEN "" ELSE s[1] \o Join(Tail(s))

\* Index of the first lexeme of s that is in D, Len(s) + 1 when none is.
FirstOf(s, D) ==
    LET at == { i \in 1..Len(s) : s[i] \in D }
    IN  IF at = {} THEN Len(s) + 1 ELSE CHOOSE i \in at : \A j \in at : i <= j

\* urllib.parse.urlparse (line 45) on a URL given as its lexemes, each a
\* delimiter (":", "/", "?", "#") or a run of other characters.  The scheme
\* is what precedes the first ":" when no delimiter comes before it; the
\* netloc follows a leading "//" and ends at the next "/", "?" or "#"; the
\* fragment follows the first "#"; the query follows the first "?" of what
\* is left; the rest is the path.  urlparse splits ";params" off the path
\* only for the schemes of its uses_params list, which holds none of the
\* vmnetx schemes.
urlparse(url) ==
    LET i == FirstIndex(url, ":")
        hasScheme == i > 1 /\ \A j \in 1..(i - 1) : url[j] \notin {"/", "?", "#"}
        scheme == IF hasScheme THEN SubSeq(url, 1, i - 1) ELSE <<>>
        rest1 == IF hasScheme THEN SubSeq(url, i + 1, Len(url)) ELSE url
        hasNetloc == Len(rest1) >= 2 /\ rest1[1] = "/" /\ rest1[2] = "/"
        after == SubSeq(rest1, 3, Len(rest1))
        n == FirstOf(after, {"/", "?", "#"})
        netloc == IF hasNetloc THEN SubSeq(after, 1, n - 1) ELSE <<>>
        rest2 == IF hasNetloc THEN SubSeq(after, n, Len(after)) ELSE rest1
        f == FirstOf(rest2, {"#"})
        fragment == SubSeq(rest2, f + 1, Len(rest2))
        rest3 == SubSeq(rest2, 1, f - 1)
        q == FirstOf(rest3, {"?"})
        query == SubSeq(rest3, q + 1, Len(rest3))
        path == SubSeq(rest3, 1, q - 1)
    IN  [ scheme |-> Join(scheme), netloc |-> Join(netloc), path |-> Join(path),
          query |-> Join(query), fragment |-> Join(fragment) ]

\* A canonical form that keeps the scheme of the locator.
KeepScheme(url) ==
    LET parsed == urlparse(url)
    IN  <<parsed.scheme, parsed.netloc, parsed.path>>

\* vmnetx_url_to_uuid: the scheme is replaced, params, query and fragment
\* are dropped; uuid5 is a hash of the canonical URL (taken as injective).
\* The triple stands for uuid5 of urlunparse's "vmnetx+https://netloc/path".
vmnetx_url_to_uuid(url) ==
    LET parsed == urlparse(url)
    IN  <<"vmnetx+https", parsed.netloc, parsed.path>>

\* DOCKER_TAG = f"{args.registry}/{sinfonia_uuid}:latest"
DockerTag(registry, uuid) == <<registry, uuid, "latest">>

\* ---- the inputs ----

\* The schemes the desktop handler is registered for (line 294).
Schemes == {"vmnetx", "vmnetx+http", "vmnetx+https"}

\* The parts a locator is written from; path, query and fragment as
\* lexemes, <<>> for a locator without query or fragment.
Parts ==
    [ scheme : Schemes,
      host : {"olivearchive.org", "example.org"},
      path : { <<"/", "win31">>, <<"/", "dos", "/", "622">> },
      query : { <<>>, <<"a", "/", "b">> },
      fragment : { <<>>, <<"x", "?", "y">> } ]

\* The VMNETX_URL argument: scheme://host/path?query#fragment
LocatorText(c) ==
    <<c.scheme, ":", "/", "/", c.host>> \o c.path
        \o (IF c.query = <<>> THEN <<>> ELSE <<"?">> \o c.query)
        \o (IF c.fragment = <<>> THEN <<>> ELSE <<"#">> \o c.fragment)

\* The locators the convert runs are given.
Locators ==
    { LocatorText(c) : c \in
        { d \in Parts : /\ d.scheme \in {"vmnetx", "vmnetx+https"}
                        /\ d.host = "olivearchive.org"
                        /\ d.query = <<>>
                        /\ d.fragment = <<>> } }

Identities == { vmnetx_url_to_uuid(u) : u \in Locators }

Registries == { <<"r", "/", "p", "/", "q">>, <<"r">> }

Tokens ==
    { <<"a", ":", "s">>, <<"a", ":", "s", ":", "t">>, <<"a", "s">> }

KeepDir == "/keep"

TmpNames == {"/var/tmp/tmp1", "/var/tmp/tmp2"}

ArgsSet ==
    [ dry_run : BOOLEAN,
      tmp_dir : {NoValue, KeepDir},
      registry : Registries,
      deploy_token : {NoText} \cup Tokens,
      url : Locators,
      vmnetx_package : {NoValue, "package.zip"} ]

Names == {"", "Virtual Machine", "Windows 3.1"}

\* What the package archive holds.  `entries` is FALSE for an archive that
\* lacks vmnetx-package.xml, domain.xml or disk.img.
Packages ==
    [ entries : BOOLEAN,
      name : Names,
      vcpu : {NoText, <<"2">>},
      memory : {NoText, <<"1", "3", "1", "0", "7", "2">>, <<"1", "5", "0", "0">>,
                <<"5", "1", "2">>} ]

\* What the operator may type at the push prompt.
Answers ==
    { <<"y", "e", "s">>, <<"Y", "e", "s">>, <<"Y", "E", "S">>,
      <<"y", "e", "s", "s", "i", "r">>, <<"y">>, <<"y", "e">>,
      <<"n", "o">>, <<"N", "O">>, <<>>, <<" ", "y", "e", "s">> }

\* Sizes in bytes of disk.img and disk.qcow2.
DiskSizes == { <<1000, 400>>, <<1000, 1000>> }

Tags == { DockerTag(g, u) : g \in Registries, u \in Identities }

\* A recipe left in RECIPES by an earlier conversion.
OldRecipe ==
    [ description |-> "old", repository |-> <<"o">>, name |-> NoIdentity,
      cpu |-> 1, memory |-> 64, restricted |-> FALSE,
      registry |-> NoText, username |-> NoText, password |-> NoText ]

\* No file at a recipe's path.
NoRecipe ==
    [ description |-> NoValue, repository |-> NoText, name |-> NoIdentity,
      cpu |-> 0, memory |-> 0, restricted |-> FALSE,
      registry |-> NoText, username |-> NoText, password |-> NoText ]

\* No image under a tag.
NoImage == [title |-> NoValue]

\* Nothing computed at lines 179-181 yet.
NoReport == [done |-> FALSE, compression |-> 0, printed |-> FALSE]

\* ---- a convert process ----

IdleRun ==
    [ pc |-> "idle",
      args |-> CHOOSE a \in ArgsSet : TRUE,
      package |-> CHOOSE p \in Packages : TRUE,
      tmpdir |-> NoValue, sinfonia_uuid |-> NoIdentity,
      vmi_fullname |-> NoValue, cpus |-> 0, memory |-> 0,
      compression |-> 0, prompted |-> FALSE, asked |-> FALSE, answer |-> NoText,
      invoked |-> <<>>, failed |-> NoValue, fault |-> FALSE,
      wrote |-> FALSE,
      exit |-> Running, error |-> NoValue ]

NewRun(a, p) == [IdleRun EXCEPT !.pc = "start", !.args = a, !.package = p]

\* A mkdtemp that hands out a predictable name.
MkdTempFixed(taken) == "/var/tmp/tmp1"

\* TemporaryDirectory(dir="/var/tmp"): mkdtemp makes a directory under a
\* random name that is not taken.  The names are taken as never handed out
\* twice, so `taken` holds the names of earlier calls too.
MkdTemp(taken) == CHOOSE d \in TmpNames : d \notin taken

Ephemeral(rec) == rec.args.tmp_dir = NoValue

\* Leaving the `with tmp_ctx` block: TemporaryDirectory removes the
\* directory and what is left in it; nullcontext removes nothing.  A
\* directory that line 213 has removed already is not an error (the
\* behaviour of tempfile since Python 3.8).
FilesAfterExit(rec, fs) ==
    IF Ephemeral(rec) THEN { f \in fs : f[1] # rec.tmpdir } ELSE fs

DirsAfterExit(rec, ds) ==
    IF Ephemeral(rec) THEN ds \ {rec.tmpdir} ELSE ds

\* The process ends: an uncaught exception gives status 1, sys.exit() and a
\* normal return give status 0.
Exited(rec, status, err) ==
    [rec EXCEPT !.pc = "exited", !.exit = status, !.error = err]

\* The exit status of an external tool: ok says whether the tool works of
\* its own accord, ready whether what it needs is there.
ExitCode(ok, ready) == IF ok /\ ready THEN 0 ELSE 1

\* subprocess.run without check=True.
RaisesNever(rc) == FALSE

\* subprocess.run([...], check=True) raises CalledProcessError on a
\* non-zero exit status.
Raises(rc) == rc # 0

\* History of subprocess.run: the tool invoked, the tool that exited
\* non-zero, and whether a collaborator failed of its own accord.
Invoke(rec, tool, ok, rc) ==
    [rec EXCEPT !.invoked = Append(@, tool),
                !.failed = IF rc # 0 THEN tool ELSE @,
                !.fault = @ \/ ~ok]

InitWaiterIdle ==
    /\ wpc = "Exited"
    /\ endpoint = [kind |-> "any", refuse |-> 0]
    /\ installed = {}
    /\ dry_run = FALSE
    /\ handshake = <<>>
    /\ outcome = "none"
    /\ attempts = 0
    /\ connects = 0
    /\ launched = <<>>
    /\ wexit = Running

InitStore ==
    /\ dirs = {}
    /\ files = {}
    /\ images = [t \in Tags |-> NoImage]
    /\ pushed = [t \in Tags |-> NoImage]
    /\ recipes \in { [u \in Identities |-> NoRecipe],
                     [u \in Identities |-> OldRecipe] }

InitConvertIdle ==
    /\ run = [r \in RunIds |-> IdleRun]
    /\ dirs = {}
    /\ files = {}
    /\ images = [t \in Tags |-> NoImage]
    /\ pushed = [t \in Tags |-> NoImage]
    /\ recipes = [u \in Identities |-> NoRecipe]

\* No locator given to launch or convert, no sizes reported on.
InitPureIdle ==
    /\ given = <<>>
    /\ launches = <<>>
    /\ converts = <<>>
    /\ sizes = <<0, 0>>
    /\ report = NoReport

\* One convert process, with any arguments and any package.
Init ==
    /\ InitWaiterIdle
    /\ InitPureIdle
    /\ InitStore
    /\ \E a \in ArgsSet, p \in Packages :
         run = [r \in RunIds |-> IF r = "A" THEN NewRun(a, p) ELSE IdleRun]

(***************************************************************************)
(* The steps of convert.  Each action is one step of process r; a step     *)
(* that raises ends the process with status 1 after the `with` block's     *)
(* clean-up.                                                               *)
(***************************************************************************)

SetRun(r, rec) == run' = [run EXCEPT ![r] = rec]

\* An exception raised inside the `with tmp_ctx` block.
RaiseInside(r, rec, err) ==
    /\ SetRun(r, Exited(rec, 1, err))
    /\ files' = FilesAfterExit(rec, files)
    /\ dirs' = DirsAfterExit(rec, dirs)

\* Lines 102-122: the dry-run assertion, the working directory, the identity.
ConvertStart(r) ==
    /\ run[r].pc = "start"
    /\ LET rec == run[r]
       IN  IF rec.args.dry_run
           THEN /\ SetRun(r, Exited(rec, 1, "AssertionError"))
                /\ UNCHANGED <<dirs, files>>
           ELSE LET d == IF rec.args.tmp_dir # NoValue
                         THEN rec.args.tmp_dir
                         ELSE MkdTemp(dirs \cup { run[q].tmpdir : q \in RunIds })
                IN  /\ SetRun(r, [rec EXCEPT
                            !.pc = "fetch",
                            !.tmpdir = d,
                            !.sinfonia_uuid = vmnetx_url_to_uuid(rec.args.url)])
                    /\ dirs' = dirs \cup {d}
                    /\ UNCHANGED files
    /\ UNCHANGED <<images, pushed, recipes>>
    /\ UNCHANGED <<wvars, pvars>>

\* Lines 124-142: download the package unless a local one was named.
Fetch(r) ==
    /\ run[r].pc = "fetch"
    /\ LET rec == run[r]
       IN  IF rec.args.vmnetx_package = NoValue
           THEN \E ok \in BOOLEAN :
                  IF ok
                  THEN /\ SetRun(r, [rec EXCEPT !.pc = "inspect"])
                       /\ files' = files \cup {<<rec.tmpdir, "vmnetx-package.zip">>}
                       /\ UNCHANGED dirs
                  ELSE RaiseInside(r, [rec EXCEPT !.fault = TRUE], "URLError")
           ELSE /\ SetRun(r, [rec EXCEPT !.pc = "inspect"])
                /\ UNCHANGED <<dirs, files>>
    /\ UNCHANGED <<images, pushed, recipes>>
    /\ UNCHANGED <<wvars, pvars>>

\* Lines 145-147: open the archive and read the package's name.
Inspect(r) ==
    /\ run[r].pc = "inspect"
    /\ LET rec == run[r]
           there == \/ rec.args.vmnetx_package # NoValue
                    \/ <<rec.tmpdir, "vmnetx-package.zip">> \in files
       IN  IF ~there
           THEN RaiseInside(r, rec, "FileNotFoundError")
           ELSE IF ~rec.package.entries
           THEN RaiseInside(r, rec, "KeyError")
           ELSE /\ SetRun(r, [rec EXCEPT !.pc = "name",
                                         !.vmi_fullname = rec.package.name])
                /\ UNCHANGED <<dirs, files>>
    /\ UNCHANGED <<images, pushed, recipes>>
    /\ UNCHANGED <<wvars, pvars>>

\* Lines 148-149: one turn of the loop that asks the operator for a name.
AskName(r) ==
    /\ run[r].pc = "name"
    /\ Placeholder(run[r].vmi_fullname)
    /\ \E n \in Names :
         SetRun(r, [run[r] EXCEPT !.vmi_fullname = n, !.prompted = TRUE])
    /\ UNCHANGED <<dirs, files, images, pushed, recipes>>
    /\ UNCHANGED <<wvars, pvars>>

\* Lines 150-162: sizing from domain.xml, extraction of disk.img, removal of
\* the downloaded package.
Sizing(r) ==
    /\ run[r].pc = "name"
    /\ ~Placeholder(run[r].vmi_fullname)
    /\ LET rec == run[r]
           sized == [rec EXCEPT !.pc = "qemu",
                                !.cpus = Cpus(rec.package),
                                !.memory = Memory(rec.package)]
           extracted == files \cup {<<rec.tmpdir, "disk.img">>}
           zip == <<rec.tmpdir, "vmnetx-package.zip">>
       IN  IF Ephemeral(rec) /\ rec.args.vmnetx_package = NoValue
           THEN IF zip \in extracted
                THEN /\ SetRun(r, sized)
                     /\ files' = extracted \ {zip}
                     /\ UNCHANGED dirs
                ELSE /\ SetRun(r, Exited(sized, 1, "FileNotFoundError"))
                     /\ files' = FilesAfterExit(rec, extracted)
                     /\ dirs' = DirsAfterExit(rec, dirs)
           ELSE /\ SetRun(r, sized)
                /\ files' = extracted
                /\ UNCHANGED dirs
    /\ UNCHANGED <<images, pushed, recipes>>
    /\ UNCHANGED <<wvars, pvars>>

\* Lines 164-184: qemu-img convert, the compression figure, removal of
\* disk.img.
Qemu(r) ==
    /\ run[r].pc = "qemu"
    /\ \E ok \in BOOLEAN, sz \in DiskSizes :
        LET img == <<run[r].tmpdir, "disk.img">>
            qcow == <<run[r].tmpdir, "disk.qcow2">>
            rc == ExitCode(ok, img \in files)
            rec == Invoke(run[r], "qemu-img", ok, rc)
        IN  IF ~Raises(rc)
            THEN /\ SetRun(r, [rec EXCEPT
                        !.pc = "build",
                        !.compression = Compression(sz[1], sz[2])])
                 /\ files' = IF Ephemeral(rec)
                             THEN (files \cup {qcow}) \ {img}
                             ELSE files \cup {qcow}
                 /\ UNCHANGED dirs
            ELSE RaiseInside(r, rec, "CalledProcessError")
    /\ UNCHANGED <<images, pushed, recipes>>
    /\ UNCHANGED <<wvars, pvars>>

\* A convert that publishes only after asking, token or not.
AfterBuildAlwaysAsks(rec) == IF Ephemeral(rec) THEN "confirm" ELSE "recipe"

\* Where convert goes after a successful build (lines 209-218).
AfterBuild(rec) ==
    IF Ephemeral(rec)
    THEN IF rec.args.deploy_token = NoText THEN "confirm" ELSE "push"
    ELSE "recipe"

\* Lines 186-213: the build context, docker build, removal of the working
\* files and of the working directory.
Build(r) ==
    /\ run[r].pc = "build"
    /\ \E ok \in BOOLEAN :
        LET qcow == <<run[r].tmpdir, "disk.qcow2">>
            rc == ExitCode(ok, qcow \in files)
            rec == Invoke(run[r], "docker build", ok, rc)
            tag == DockerTag(rec.args.registry, rec.sinfonia_uuid)
            ctx == { <<rec.tmpdir, ".dockerignore">>, <<rec.tmpdir, "Dockerfile">> }
            written == files \cup ctx
            left == { f \in written \ (ctx \cup {qcow}) : f[1] = rec.tmpdir }
        IN  IF Raises(rc)
            THEN /\ RaiseInside(r, rec, "CalledProcessError")
                 /\ UNCHANGED images
            ELSE /\ images' = [images EXCEPT ![tag] = [title |-> rec.vmi_fullname]]
                 /\ IF ~Ephemeral(rec)
                    THEN /\ SetRun(r, [rec EXCEPT !.pc = AfterBuild(rec)])
                         /\ files' = written
                         /\ UNCHANGED dirs
                    ELSE IF left = {}
                    THEN \* unlink x 3, tmpdir.rmdir()
                         /\ SetRun(r, [rec EXCEPT !.pc = AfterBuild(rec)])
                         /\ files' = written \ (ctx \cup {qcow})
                         /\ dirs' = dirs \ {rec.tmpdir}
                    ELSE \* rmdir of a directory that is not empty
                         /\ SetRun(r, Exited(rec, 1, "OSError"))
                         /\ files' = FilesAfterExit(rec, written)
                         /\ dirs' = DirsAfterExit(rec, dirs)
    /\ UNCHANGED <<pushed, recipes>>
    /\ UNCHANGED <<wvars, pvars>>

\* A decline that skips the push and goes on to the recipe.
DeclineToRecipe(rec) == [rec EXCEPT !.pc = "recipe"]

\* A decline that exits with an error status, sys.exit(1).
DeclineWithError(rec) == Exited(rec, 1, "SystemExit")

\* Line 218: sys.exit() when the operator does not answer yes.
Decline(rec) == Exited(rec, 0, "SystemExit")

\* Lines 215-218: the push prompt, asked only without a deploy token.
Confirm(r) ==
    /\ run[r].pc = "confirm"
    /\ \E a \in Answers :
        LET rec == [run[r] EXCEPT !.asked = TRUE, !.answer = a]
        IN  IF IsYes(a)
            THEN SetRun(r, [rec EXCEPT !.pc = "push"])
            ELSE SetRun(r, Decline(rec))
    /\ UNCHANGED <<dirs, files, images, pushed, recipes>>
    /\ UNCHANGED <<wvars, pvars>>

\* Lines 220-222: docker push.  The tool fails of its own accord or because
\* no local image carries the tag.
Push(r) ==
    /\ run[r].pc = "push"
    /\ \E ok \in BOOLEAN :
        LET tag == DockerTag(run[r].args.registry, run[r].sinfonia_uuid)
            rc == ExitCode(ok, images[tag] # NoImage)
            rec == Invoke(run[r], "docker push", ok, rc)
        IN  IF ~Raises(rc)
            THEN /\ SetRun(r, [rec EXCEPT !.pc = "rm"])
                 /\ pushed' = [pushed EXCEPT ![tag] = images[tag]]
            ELSE /\ SetRun(r, Exited(rec, 1, "CalledProcessError"))
                 /\ UNCHANGED pushed
    /\ UNCHANGED <<dirs, files, images, recipes>>
    /\ UNCHANGED <<wvars, pvars>>

\* Lines 223-227: docker image rm.  It fails too when the tag is gone.
RemoveImage(r) ==
    /\ run[r].pc = "rm"
    /\ \E ok \in BOOLEAN :
        LET tag == DockerTag(run[r].args.registry, run[r].sinfonia_uuid)
            rc == ExitCode(ok, images[tag] # NoImage)
            rec == Invoke(run[r], "docker image rm", ok, rc)
        IN  IF ~Raises(rc)
            THEN /\ SetRun(r, [rec EXCEPT !.pc = "recipe"])
                 /\ images' = [images EXCEPT ![tag] = NoImage]
            ELSE /\ SetRun(r, Exited(rec, 1, "CalledProcessError"))
                 /\ UNCHANGED images
    /\ UNCHANGED <<dirs, files, pushed, recipes>>
    /\ UNCHANGED <<wvars, pvars>>

\* Lines 233-234: unpacking a split that gave one part raises ValueError.
CredentialsRaise(registry, deploy_token) ==
    /\ deploy_token # NoText
    /\ \/ Len(Split1(registry, "/")) # 2
       \/ Len(Split1(deploy_token, ":")) # 2

\* Lines 232-243: the access block of the recipe.
Credentials(registry, deploy_token) ==
    IF deploy_token = NoText
    THEN [restricted |-> FALSE, registry |-> NoText,
          username |-> NoText, password |-> NoText]
    ELSE [restricted |-> TRUE,
          registry |-> Split1(registry, "/")[1],
          username |-> Split1(deploy_token, ":")[1],
          password |-> Split1(deploy_token, ":")[2]]

\* A recipe whose containerDisk name is left out.
RecipeWithoutName(rec, cred) ==
    [ description |-> rec.vmi_fullname,
      repository |-> rec.args.registry,
      name |-> NoIdentity,
      cpu |-> rec.cpus,
      memory |-> rec.memory,
      restricted |-> cred.restricted,
      registry |-> cred.registry,
      username |-> cred.username,
      password |-> cred.password ]

\* Lines 247-265: the text written to the recipe file.
Recipe(rec, cred) ==
    [ description |-> rec.vmi_fullname,
      repository |-> rec.args.registry,
      name |-> rec.sinfonia_uuid,
      cpu |-> rec.cpus,
      memory |-> rec.memory,
      restricted |-> cred.restricted,
      registry |-> cred.registry,
      username |-> cred.username,
      password |-> cred.password ]

\* Number of decimal digits of n >= 0.
RECURSIVE DecLen(_)
DecLen(n) == IF n < 10 THEN 1 ELSE 1 + DecLen(n \div 10)

\* Length of the recipe's text: the template of lines 248-263 (with the
\* 36 characters of the uuid), the access block of lines 235-243, and the
\* values filled in.
RecipeSize(rcp) ==
    282 + Len(rcp.description) + Len(rcp.repository)
        + DecLen(rcp.cpu) + DecLen(rcp.memory)
        + (IF rcp.restricted
           THEN 98 + Len(rcp.registry) + Len(rcp.username) + Len(rcp.password)
           ELSE 19)

\* A recipe file that open("w") has truncated and nothing has written yet.
EmptyFile == [NoRecipe EXCEPT !.description = "(empty)"]

\* A recipe file holding one process's text followed by the end of a
\* longer text that another process wrote before it.
TornFile == [NoRecipe EXCEPT !.description = "(torn)"]

\* write() at offset 0 of a file that open("w") truncated: what the file
\* holds afterwards, given what another process may have written since.
Written(old, new) ==
    IF old = EmptyFile \/ old = new THEN new
    ELSE IF old = TornFile \/ RecipeSize(old) > RecipeSize(new) THEN TornFile
    ELSE new

\* Lines 229-247: the credentials are split, RECIPES/{uuid}.yaml is opened
\* for writing (which empties it).
OpenRecipe(r) ==
    /\ run[r].pc = "recipe"
    /\ LET rec == run[r]
       IN  IF CredentialsRaise(rec.args.registry, rec.args.deploy_token)
           THEN /\ SetRun(r, Exited(rec, 1, "ValueError"))
                /\ UNCHANGED recipes
           ELSE /\ SetRun(r, [rec EXCEPT !.pc = "write"])
                /\ recipes' = [recipes EXCEPT ![rec.sinfonia_uuid] = EmptyFile]
    /\ UNCHANGED <<dirs, files, images, pushed>>
    /\ UNCHANGED <<wvars, pvars>>

\* Lines 247-265: the recipe's text is written and the file closed.
WriteRecipe(r) ==
    /\ run[r].pc = "write"
    /\ LET rec == run[r]
           cred == Credentials(rec.args.registry, rec.args.deploy_token)
           path == rec.sinfonia_uuid
       IN  /\ SetRun(r, [rec EXCEPT !.pc = "final", !.wrote = TRUE])
           /\ recipes' = [recipes EXCEPT
                            ![path] = Written(recipes[path], Recipe(rec, cred))]
    /\ UNCHANGED <<dirs, files, images, pushed>>
    /\ UNCHANGED <<wvars, pvars>>

\* Line 266: input("Done, hit return to quit"), then convert returns.
Finish(r) ==
    /\ run[r].pc = "final"
    /\ SetRun(r, Exited(run[r], 0, NoValue))
    /\ UNCHANGED <<dirs, files, images, pushed, recipes>>
    /\ UNCHANGED <<wvars, pvars>>

Next ==
    \E r \in RunIds :
        \/ ConvertStart(r)
        \/ Fetch(r)
        \/ Inspect(r)
        \/ AskName(r)
        \/ Sizing(r)
        \/ Qemu(r)
        \/ Build(r)
        \/ Confirm(r)
        \/ Push(r)
        \/ RemoveImage(r)
        \/ OpenRecipe(r)
        \/ WriteRecipe(r)
        \/ Finish(r)

Spec == Init /\ [][Next]_vars

\* Two convert processes at once for one locator, each with the default
\* ephemeral working directory.
ConcArgs ==
    { a \in ArgsSet :
        /\ ~a.dry_run
        /\ a.tmp_dir = NoValue
        /\ a.registry = <<"r", "/", "p", "/", "q">>
        /\ a.deploy_token \in {NoText, <<"a", ":", "s">>}
        /\ a.url = <<"vmnetx", ":", "/", "/", "olivearchive.org", "/", "win31">> }

ConcPackages ==
    { p \in Packages :
        /\ p.entries
        /\ p.name \in {"Virtual Machine", "Windows 3.1"}
        /\ p.vcpu = NoText
        /\ p.memory = NoText }

InitConc ==
    /\ InitWaiterIdle
    /\ InitPureIdle
    /\ InitStore
    /\ \E p \in ConcPackages :
         run \in [RunIds -> { NewRun(a, p) : a \in ConcArgs }]

SpecConc == InitConc /\ [][Next]_vars

\* Two convert processes one after the other: B is invoked when A has
\* ended.  A converts vmnetx://olivearchive.org/win31; B converts the same
\* locator, the same host and path under another scheme, or another path.
SeqArgs ==
    { a \in ArgsSet :
        /\ ~a.dry_run
        /\ a.tmp_dir = NoValue
        /\ a.registry = <<"r", "/", "p", "/", "q">>
        /\ a.deploy_token \in {NoText, <<"a", ":", "s">>}
        /\ a.vmnetx_package = "package.zip" }

SeqPackages ==
    { p \in Packages :
        /\ p.entries
        /\ p.name \in {"Virtual Machine", "Windows 3.1"}
        /\ p.memory = NoText }

InitSeq ==
    /\ InitWaiterIdle
    /\ InitPureIdle
    /\ InitStore
    /\ \E a \in SeqArgs, b \in SeqArgs, p \in SeqPackages, q \in SeqPackages :
         /\ a.url = <<"vmnetx", ":", "/", "/", "olivearchive.org", "/", "win31">>
         /\ b.deploy_token # NoText
         /\ run = [r \in RunIds |->
                     IF r = "A" THEN NewRun(a, p)
                                ELSE [NewRun(b, q) EXCEPT !.pc = "queued"]]

\* The next invocation of convert, made when the earlier ones have ended.
StartLater(r) ==
    /\ run[r].pc = "queued"
    /\ \A q \in RunIds \ {r} : run[q].pc = "exited"
    /\ SetRun(r, [run[r] EXCEPT !.pc = "start"])
    /\ UNCHANGED <<dirs, files, images, pushed, recipes>>
    /\ UNCHANGED <<wvars, pvars>>

NextSeq == Next \/ \E r \in RunIds : StartLater(r)

SpecSeq == InitSeq /\ [][NextSeq]_vars

\* ---- stage2, continued ----

InitWaiter ==
    /\ InitConvertIdle
    /\ InitPureIdle
    /\ wpc = "Polling"
    /\ endpoint \in Endpoints
    /\ installed \in SUBSET Viewers
    /\ dry_run \in BOOLEAN
    /\ handshake = <<>>
    /\ outcome = "none"
    /\ attempts = 0
    /\ connects = 0
    /\ launched = <<>>
    /\ wexit = Running

\* One iteration of the while True loop (lines 70-80).
Probe ==
    /\ wpc = "Polling"
    /\ \E o \in OutcomesAt(endpoint, attempts) :
        /\ attempts' = Min(attempts + 1, AttemptsCap)
        /\ handshake' = IF o.kind = "data" THEN o.bytes ELSE handshake
        /\ outcome' = o.kind
        /\ IF Ready(o)
           THEN /\ wpc' = "Connected"
                /\ connects' = connects + 1
                /\ wexit' = wexit
           ELSE IF Caught(o) \/ o.kind = "data"
           THEN /\ wpc' = "Polling"
                /\ UNCHANGED <<connects, wexit>>
           ELSE \* an exception the loop does not catch ends the process
                /\ wpc' = "Exited"
                /\ wexit' = 1
                /\ UNCHANGED connects
    /\ UNCHANGED <<endpoint, installed, dry_run, launched>>
    /\ UNCHANGED <<cvars, pvars>>

\* A stage2 that goes back to probing when it finds no viewer.
StartViewerRetry ==
    /\ wpc = "Connected"
    /\ LET cmd == ViewerCommand(dry_run, installed)
       IN  IF cmd = <<>>
           THEN /\ launched' = launched
                /\ wexit' = wexit
                /\ wpc' = "Polling"
           ELSE /\ launched' = Append(launched, cmd)
                /\ \E rc \in {0, 1} : wexit' = rc
                /\ wpc' = "Exited"
    /\ UNCHANGED <<endpoint, installed, dry_run, handshake, outcome, attempts,
                   connects>>
    /\ UNCHANGED <<cvars, pvars>>

\* Lines 83-97: start the first viewer found, or report that none is.
StartViewer ==
    /\ wpc = "Connected"
    /\ LET cmd == ViewerCommand(dry_run, installed)
       IN  IF cmd = <<>>
           THEN \* print(...); sleep(10); the function returns
                /\ launched' = launched
                /\ wexit' = 0
           ELSE \* subprocess.run(cmd, check=True); return
                /\ launched' = Append(launched, cmd)
                /\ \E rc \in {0, 1} : wexit' = rc
    /\ wpc' = "Exited"
    /\ UNCHANGED <<endpoint, installed, dry_run, handshake, outcome, attempts,
                   connects>>
    /\ UNCHANGED <<cvars, pvars>>

NextWaiter == Probe \/ StartViewer

SpecWaiter == InitWaiter /\ [][NextWaiter]_vars

(***************************************************************************)
(* launch, and the identity launch and convert derive from a locator.      *)
(***************************************************************************)

SINFONIA_TIER1_URL == "https://cmu.findcloudlet.org"

\* launch has not been invoked.
NoLaunch ==
    [ dry |-> FALSE, tier1 |-> NoValue, uuid |-> NoIdentity, exit |-> Running ]

\* Two locators, written from any parts; neither command has been invoked.
InitDerive ==
    /\ InitWaiterIdle
    /\ InitConvertIdle
    /\ given \in { <<c, d>> : c \in Parts, d \in Parts }
    /\ launches = <<NoLaunch, NoLaunch>>
    /\ converts = <<NoIdentity, NoIdentity>>
    /\ sizes = <<0, 0>>
    /\ report = NoReport

\* Lines 50-64: launch derives the identity and hands it to sinfonia-tier3;
\* check=True turns a non-zero exit status into status 1, echo exits 0.
Launch(i) ==
    /\ LET sinfonia_uuid == vmnetx_url_to_uuid(LocatorText(given[i]))
       IN  \E dry \in BOOLEAN, rc \in {0, 1} :
             /\ dry => rc = 0
             /\ launches' = [launches EXCEPT ![i] =
                    [ dry |-> dry, tier1 |-> SINFONIA_TIER1_URL,
                      uuid |-> sinfonia_uuid,
                      exit |-> IF Raises(rc) THEN 1 ELSE 0 ]]
    /\ UNCHANGED <<given, converts, sizes, report>>
    /\ UNCHANGED <<wvars, cvars>>

\* Lines 121-122: convert derives the identity and prints it.
ConvertIdentity(i) ==
    /\ converts' = [converts EXCEPT ![i] =
                        vmnetx_url_to_uuid(LocatorText(given[i]))]
    /\ UNCHANGED <<given, launches, sizes, report>>
    /\ UNCHANGED <<wvars, cvars>>

NextDerive == \E i \in 1..2 : Launch(i) \/ ConvertIdentity(i)

SpecDerive == InitDerive /\ [][NextDerive]_vars

(***************************************************************************)
(* The compression figure of lines 179-181, for any pair of sizes.         *)
(***************************************************************************)

MaxSize == 12

\* Sizes in bytes: the small ones, and those around 1000.
SizeValues == (0..MaxSize) \cup {400, 999, 1000}

\* disk.img is not empty, disk.qcow2 has any size.
InitReport ==
    /\ InitWaiterIdle
    /\ InitConvertIdle
    /\ given = <<>>
    /\ launches = <<>>
    /\ converts = <<>>
    /\ sizes \in { <<pre, post>> : pre \in SizeValues \ {0}, post \in SizeValues }
    /\ report = NoReport

\* Lines 179-181: the figure is computed and, unless it is 0, printed.
Report ==
    /\ ~report.done
    /\ LET compression == Compression(sizes[1], sizes[2])
       IN  report' = [ done |-> TRUE, compression |-> compression,
                       printed |-> Printed(compression) ]
    /\ UNCHANGED <<given, launches, converts, sizes>>
    /\ UNCHANGED <<wvars, cvars>>

NextReport == Report

SpecReport == InitReport /\ [][NextReport]_vars

(***************************************************************************)
(* The claims.                                                             *)
(***************************************************************************)

Range(s) == { s[i] : i \in 1..Len(s) }

Active == { r \in RunIds : run[r].pc # "idle" }

\* The answer begins with "yes" in any mix of upper and lower case.
SaidYes(a) ==
    /\ Len(a) >= 3
    /\ a[1] \in {"y", "Y"}
    /\ a[2] \in {"e", "E"}
    /\ a[3] \in {"s", "S"}

HasColon(t) == \E i \in 1..Len(t) : t[i] = ":"

TagOf(r) == <<run[r].args.registry, run[r].sinfonia_uuid, "latest">>

\* The registry holds an image under the run's tag.
Published(r) == TagOf(r) \in Tags /\ pushed[TagOf(r)] # NoImage

\* The local image store holds an image under the run's tag.
ImageKept(r) == TagOf(r) \in Tags /\ images[TagOf(r)] # NoImage

\* The run asked the push prompt and the operator did not answer yes.
Declined(r) == run[r].asked /\ ~SaidYes(run[r].answer)

\* Nothing has touched the recipe store since the initial state.
StoreUntouched == \A u \in Identities : recipes[u] \in {NoRecipe, OldRecipe}

\* C1: against an endpoint that refuses the first N connection attempts and
\* then answers RFB, stage2 makes exactly N+1 probes, goes from Polling to
\* Connected exactly once, on probe N+1, and starts no viewer before that.
C1_ScriptedEndpointConnectsOnce ==
    endpoint.kind = "scripted" =>
        /\ attempts <= endpoint.refuse + 1
        /\ connects <= 1
        /\ wpc = "Polling" =>
             /\ connects = 0
             /\ attempts <= endpoint.refuse
             /\ launched = <<>>
             /\ wexit = Running
        /\ wpc # "Polling" =>
             /\ connects = 1
             /\ attempts = endpoint.refuse + 1

C1_Witness ==
    /\ endpoint.kind = "scripted"
    /\ endpoint.refuse = MaxRefuse
    /\ wpc = "Exited"
    /\ connects = 1
    /\ attempts = MaxRefuse + 1
    /\ Len(launched) = 1

\* C2: without a deploy token nothing is pushed unless the prompt was asked
\* in that run and answered with a text starting with "yes" (any case);
\* with a deploy token the prompt is never asked.
C2_PushGatedByConfirmation ==
    \A r \in Active :
        /\ ( /\ run[r].args.deploy_token = NoText
             /\ \/ "docker push" \in Range(run[r].invoked)
                \/ run[r].pc \in {"push", "rm"}
                \/ Published(r) )
           => (run[r].asked /\ SaidYes(run[r].answer))
        /\ run[r].args.deploy_token # NoText => ~run[r].asked

C2_Witness ==
    \E r \in Active :
        /\ run[r].args.deploy_token = NoText
        /\ run[r].answer = <<"Y", "E", "S">>
        /\ Published(r)

\* C3 as stated: every run with a deploy token that writes its restricted
\* recipe, with or without a persistent working directory, has pushed the
\* container before, without a prompt.
C3_TokenRunsAlwaysPush ==
    \A r \in Active :
        (run[r].args.deploy_token # NoText /\ run[r].wrote) =>
            /\ "docker push" \in Range(run[r].invoked)
            /\ Published(r)
            /\ ~run[r].asked

\* C3 as amended: a run with a deploy token that writes its restricted
\* recipe was never asked for confirmation; with the default ephemeral
\* working directory it has pushed the container before, with --tmp-dir it
\* has not invoked docker push at all.
C3_TokenRunsPushUnlessTmpDir ==
    \A r \in Active :
        (run[r].args.deploy_token # NoText /\ run[r].wrote) =>
            /\ ~run[r].asked
            /\ recipes[run[r].sinfonia_uuid].restricted
            /\ run[r].args.tmp_dir = NoValue =>
                 /\ "docker push" \in Range(run[r].invoked)
                 /\ run[r].failed = NoValue
                 /\ Published(r)
            /\ run[r].args.tmp_dir # NoValue =>
                 "docker push" \notin Range(run[r].invoked)

C3_Witness ==
    \E r \in Active :
        /\ run[r].args.deploy_token = <<"a", ":", "s">>
        /\ run[r].args.tmp_dir = NoValue
        /\ run[r].wrote
        /\ Published(r)
        /\ recipes[run[r].sinfonia_uuid].restricted

\* C4: once an external tool has exited non-zero the run has ended with a
\* non-zero status at that step: the failed tool is the last one invoked,
\* it was invoked once, and the run has written no recipe.
C4_FailFast ==
    \A r \in Active :
        run[r].failed # NoValue =>
             /\ run[r].pc = "exited"
             /\ run[r].exit # 0
             /\ run[r].invoked[Len(run[r].invoked)] = run[r].failed
             /\ Cardinality({ i \in 1..Len(run[r].invoked) :
                                run[r].invoked[i] = run[r].failed }) = 1
             /\ ~run[r].wrote
             /\ StoreUntouched

C4_Witness ==
    \E r \in Active :
        /\ run[r].failed = "docker push"
        /\ run[r].invoked = <<"qemu-img", "docker build", "docker push">>
        /\ run[r].exit = 1

\* C5 as stated: a run without deploy token whose operator declines the
\* push has written a recipe for its identity when it ends.
C5_DeclineStillWritesRecipe ==
    \A r \in Active :
        (Declined(r) /\ run[r].pc = "exited") =>
            /\ "docker push" \notin Range(run[r].invoked)
            /\ run[r].wrote

\* C5 as amended: a run without deploy token whose operator declines the
\* push ends there: it performs no push and writes no recipe.
C5_DeclineWritesNoRecipe ==
    \A r \in Active :
        Declined(r) =>
            /\ run[r].args.deploy_token = NoText
            /\ run[r].pc = "exited"
            /\ "docker push" \notin Range(run[r].invoked)
            /\ ~Published(r)
            /\ ~run[r].wrote
            /\ StoreUntouched

C5_Witness ==
    \E r \in Active :
        /\ run[r].asked
        /\ run[r].answer = <<"n", "o">>
        /\ run[r].pc = "exited"
        /\ recipes[run[r].sinfonia_uuid] = NoRecipe

\* C6: declining the push prompt ends the run with exit status zero, not
\* as an error, and docker push is never invoked in that run.
C6_DeclineExitsZero ==
    \A r \in Active :
        Declined(r) =>
            /\ run[r].pc = "exited"
            /\ run[r].exit = 0
            /\ run[r].failed = NoValue
            /\ "docker push" \notin Range(run[r].invoked)

C6_Witness ==
    \E r \in Active :
        /\ run[r].asked
        /\ run[r].answer = <<"y", "e">>
        /\ run[r].exit = 0
        /\ run[r].invoked = <<"qemu-img", "docker build">>

\* The build of run r succeeded.
Built(r) ==
    /\ "docker build" \in Range(run[r].invoked)
    /\ run[r].failed # "docker build"

\* The push of run r succeeded.
PushDone(r) ==
    /\ "docker push" \in Range(run[r].invoked)
    /\ run[r].failed # "docker push"

\* C7: a run without --tmp-dir whose build succeeded has invoked docker
\* image rm on the built image by the time it ends, both when the push
\* succeeded and when the operator declined the push.
C7_LocalImageRemoved ==
    \A r \in Active :
        ( /\ run[r].pc = "exited"
          /\ run[r].args.tmp_dir = NoValue
          /\ Built(r)
          /\ PushDone(r) \/ Declined(r) )
        => /\ "docker image rm" \in Range(run[r].invoked)
           /\ run[r].failed = NoValue => ~ImageKept(r)

\* The bytes read do not begin with the three bytes RFB.
NotPreamble(h) ==
    \/ Len(h) < 3
    \/ h[1] # "R"
    \/ h[2] # "F"
    \/ h[3] # "B"

\* C8: after a probe that ended in name-resolution failure, connection
\* refused or timeout, or whose read does not begin with RFB, stage2 is
\* still polling, has started no viewer, and the next probe is enabled,
\* however many probes came before.
C8_NotReadyKeepsPolling ==
    ( \/ outcome \in {"gaierror", "refused", "timeout"}
      \/ outcome = "data" /\ NotPreamble(handshake) )
    => /\ wpc = "Polling"
       /\ connects = 0
       /\ launched = <<>>
       /\ wexit = Running
       /\ ENABLED Probe

C8_Witness ==
    /\ endpoint.kind = "any"
    /\ attempts = AttemptsCap
    /\ outcome = "data"
    /\ handshake = <<"R", "F">>
    /\ wpc = "Polling"

\* C9: a run whose deploy token holds no colon ends with an error, and the
\* recipe store is as it was before the run.
C9_MalformedTokenNoRecipe ==
    \A r \in Active :
        (run[r].args.deploy_token # NoText /\ ~HasColon(run[r].args.deploy_token)) =>
            /\ run[r].pc \notin {"write", "final"}
            /\ run[r].pc = "exited" => run[r].exit # 0 /\ run[r].error # NoValue
            /\ ~run[r].wrote
            /\ StoreUntouched

C9_Witness ==
    \E r \in Active :
        /\ run[r].args.deploy_token = <<"a", "s">>
        /\ run[r].error = "ValueError"
        /\ run[r].exit = 1
        /\ Published(r)
        /\ recipes[run[r].sinfonia_uuid] = OldRecipe

Other(r) == CHOOSE q \in RunIds : q # r

RecipeOf(r) ==
    Recipe(run[r], Credentials(run[r].args.registry, run[r].args.deploy_token))

AllExited == \A r \in RunIds : run[r].pc = "exited"

\* C10 as stated: two concurrent runs for one locator, each with its own
\* ephemeral directory, end as they would alone (a run fails only when a
\* collaborator of its own fails) and the final recipe is the one written
\* by one of them.
C10_RunsEndAsAlone ==
    /\ \A r \in RunIds :
         run[r].pc = "exited" => (run[r].exit # 0 <=> run[r].fault)
    /\ (AllExited /\ \E r \in RunIds : run[r].wrote) =>
         \E r \in RunIds :
            run[r].wrote /\ recipes[run[r].sinfonia_uuid] = RecipeOf(r)

\* The runs that are between creating and removing their working files.
Working == { r \in RunIds : run[r].pc \in {"fetch", "inspect", "name", "qemu", "build"} }

\* C10 as amended: the two runs work in different directories and each
\* ends as it would alone, except that a run can fail at docker push or
\* docker image rm, writing no recipe, once the other run has invoked
\* docker image rm on the shared tag; and the final recipe is the text of
\* one run or, when both wrote, possibly a torn mix of the two.
C10_RunsShareTagAndRecipe ==
    /\ \A r \in Working : \A q \in Working \ {r} : run[r].tmpdir # run[q].tmpdir
    /\ \A r \in RunIds :
         run[r].pc = "exited" =>
            /\ run[r].fault => run[r].exit # 0
            /\ (run[r].exit # 0 /\ ~run[r].fault) =>
                 /\ run[r].failed \in {"docker push", "docker image rm"}
                 /\ run[r].error = "CalledProcessError"
                 /\ ~run[r].wrote
                 /\ "docker image rm" \in Range(run[Other(r)].invoked)
            /\ run[r].exit = 0 => (Declined(r) \/ run[r].wrote)
    /\ (AllExited /\ \E r \in RunIds : run[r].wrote) =>
         \/ \E r \in RunIds :
               run[r].wrote /\ recipes[run[r].sinfonia_uuid] = RecipeOf(r)
         \/ /\ \A r \in RunIds : run[r].wrote
            /\ \A r \in RunIds : recipes[run[r].sinfonia_uuid] = TornFile

C10_Witness ==
    \E r \in RunIds :
        /\ run[r].pc = "exited"
        /\ run[r].exit = 1
        /\ ~run[r].fault
        /\ run[r].failed = "docker push"
        /\ run[Other(r)].wrote
        /\ run[Other(r)].exit = 0

\* The identities launch and convert have derived for the i-th locator.
DerivedFor(i) == {launches[i].uuid, converts[i]} \ {NoIdentity}

\* C11: locators with the same host and path, whatever their scheme, query
\* and fragment, are given the same identity, by launch and by convert alike
\* and however often each is invoked; in particular launch and convert
\* invoked with the same locator use the same identity.
C11_SameHostAndPathSameIdentity ==
    \A i \in 1..2 : \A j \in 1..2 :
        (given[i].host = given[j].host /\ given[i].path = given[j].path) =>
            \A a \in DerivedFor(i) : \A b \in DerivedFor(j) : a = b

C11_Witness ==
    /\ given[1].scheme = "vmnetx"
    /\ given[2].scheme = "vmnetx+https"
    /\ given[1].query = <<>>
    /\ given[2].query = <<"a", "/", "b">>
    /\ given[1].fragment = <<>>
    /\ given[2].fragment = <<"x", "?", "y">>
    /\ given[1].host = "olivearchive.org"
    /\ given[2].host = "olivearchive.org"
    /\ given[1].path = <<"/", "dos", "/", "622">>
    /\ given[2].path = <<"/", "dos", "/", "622">>
    /\ launches[1].uuid = <<"vmnetx+https", "olivearchive.org", "/dos/622">>
    /\ launches[1].exit = 0
    /\ converts[2] = launches[1].uuid
    /\ launches[2].uuid = converts[1]
    /\ converts[1] # NoIdentity

\* C12: once connected, stage2 runs exactly one command and none before:
\* the command line of the first installed viewer in the order
\* remote-viewer, gvncviewer, vncviewer (behind "echo" under --dry-run),
\* with vnc://vmi-vnc:5900 for remote-viewer and vmi-vnc:0 for the other
\* two; a viewer is never run when one before it in the order is installed.
C12_FirstAvailableViewer ==
    /\ Len(launched) <= 1
    /\ wpc # "Exited" => launched = <<>>
    /\ (wpc = "Exited" /\ connects = 1 /\ installed # {}) =>
         /\ Len(launched) = 1
         /\ LET cmd == launched[1]
                viewer == cmd[Len(cmd) - 1]
                address == cmd[Len(cmd)]
            IN  /\ cmd = IF dry_run THEN <<"echo", viewer, address>>
                                    ELSE <<viewer, address>>
                /\ viewer \in installed
                /\ "remote-viewer" \in installed => viewer = "remote-viewer"
                /\ viewer = "vncviewer" => "gvncviewer" \notin installed
                /\ viewer = "remote-viewer" => address = "vnc://vmi-vnc:5900"
                /\ viewer \in {"gvncviewer", "vncviewer"} => address = "vmi-vnc:0"

C12_Witness ==
    /\ wpc = "Exited"
    /\ connects = 1
    /\ installed = {"gvncviewer", "vncviewer"}
    /\ ~dry_run
    /\ launched = << <<"gvncviewer", "vmi-vnc:0">> >>

\* C13: once stage2 has read the RFB preamble with no viewer installed, it
\* gives up for good: it runs no command, makes no further probe, is never
\* Polling again, and once it has given up nothing more happens.
C13_NoViewerIsTerminal ==
    (connects >= 1 /\ installed = {}) =>
        /\ connects = 1
        /\ wpc \in {"Connected", "Exited"}
        /\ launched = <<>>
        /\ ~ENABLED Probe
        /\ wpc = "Exited" => (wexit # Running /\ ~ENABLED StartViewer)

C13_Witness ==
    /\ installed = {}
    /\ wpc = "Exited"
    /\ connects = 1
    /\ attempts = 2
    /\ launched = <<>>
    /\ wexit # Running

\* C14: a stage2 run that has read the RFB preamble and found no viewer
\* installed ends with a non-zero exit status.
C14_NoViewerExitsNonZero ==
    (wpc = "Exited" /\ connects = 1 /\ installed = {}) =>
        (wexit # Running /\ wexit # 0)

\* The name is empty or the generic "Virtual Machine".
Generic(name) == name = "" \/ name = "Virtual Machine"

\* Run r has started a step that comes after the name gate.
PastGate(r) ==
    \/ run[r].pc \in {"qemu", "build", "confirm", "push", "rm", "recipe",
                       "write", "final"}
    \/ run[r].cpus # 0
    \/ run[r].memory # 0
    \/ run[r].invoked # <<>>
    \/ run[r].wrote
    \/ <<run[r].tmpdir, "disk.img">> \in files
    \/ ImageKept(r)

\* C15: a package name that is empty or "Virtual Machine" makes convert ask
\* the operator, again while the answer is itself empty or "Virtual
\* Machine", and nothing after the gate (sizing, extraction of the disk,
\* qemu-img, docker, recipe) has started while the name is such; any other
\* package name is used as it is without asking; the image title and the
\* recipe description are the name so resolved.
C15_NameGate ==
    \A r \in Active :
        /\ PastGate(r) => (run[r].vmi_fullname # NoValue /\ ~Generic(run[r].vmi_fullname))
        /\ (run[r].pc = "name" /\ Generic(run[r].vmi_fullname)) =>
              (ENABLED AskName(r) /\ ~ENABLED Sizing(r))
        /\ (PastGate(r) /\ Generic(run[r].package.name)) => run[r].prompted
        /\ ~Generic(run[r].package.name) =>
              /\ ~run[r].prompted
              /\ run[r].vmi_fullname \in {NoValue, run[r].package.name}
              /\ ~ENABLED AskName(r)
        /\ ImageKept(r) => images[TagOf(r)].title = run[r].vmi_fullname
        /\ Published(r) => pushed[TagOf(r)].title = run[r].vmi_fullname
        /\ run[r].wrote =>
              recipes[run[r].sinfonia_uuid].description = run[r].vmi_fullname

C15_Witness ==
    \E r \in Active :
        /\ run[r].package.name = "Virtual Machine"
        /\ run[r].prompted
        /\ run[r].vmi_fullname = "Windows 3.1"
        /\ run[r].wrote
        /\ recipes[run[r].sinfonia_uuid].description = "Windows 3.1"
        /\ Published(r)
        /\ pushed[TagOf(r)].title = "Windows 3.1"

\* C16: the recipe a run has written says restricted: false, with no
\* credential fields, exactly when the run had no deploy token; with a
\* deploy token it says restricted: true, with the username and password
\* that the token spells as username:password where the username holds no
\* colon, and with the registry host that the --registry value begins with
\* up to its first "/".
C16_AccessBlock ==
    \A r \in Active :
        run[r].wrote =>
            LET rcp == recipes[run[r].sinfonia_uuid]
                token == run[r].args.deploy_token
            IN  /\ rcp.restricted <=> token # NoText
                /\ ~rcp.restricted =>
                      /\ rcp.registry = NoText
                      /\ rcp.username = NoText
                      /\ rcp.password = NoText
                /\ rcp.restricted =>
                      /\ rcp.username \o <<":">> \o rcp.password = token
                      /\ ":" \notin Range(rcp.username)
                      /\ StartsWith(run[r].args.registry, rcp.registry \o <<"/">>)
                      /\ "/" \notin Range(rcp.registry)

C16_Witness ==
    \E r \in Active :
        /\ run[r].wrote
        /\ run[r].args.registry = <<"r", "/", "p", "/", "q">>
        /\ run[r].args.deploy_token = <<"a", ":", "s", ":", "t">>
        /\ recipes[run[r].sinfonia_uuid].restricted
        /\ recipes[run[r].sinfonia_uuid].registry = <<"r">>
        /\ recipes[run[r].sinfonia_uuid].username = <<"a">>
        /\ recipes[run[r].sinfonia_uuid].password = <<"s", ":", "t">>

\* The value of num / den truncated toward zero, for den > 0.
TruncatedQuotient(num, den) ==
    IF num >= 0 THEN num \div den ELSE 0 - ((0 - num) \div den)

\* C17 as stated: the figure is 100 - 100*post/pre truncated toward zero,
\* and the savings line is printed exactly when that value is not 0.
C17_SavingsTruncated ==
    report.done =>
        LET stated == TruncatedQuotient(100 * sizes[1] - 100 * sizes[2], sizes[1])
        IN  /\ report.compression = stated
            /\ report.printed <=> stated # 0

\* C17 as amended: the figure is 100 minus the whole part of 100*post/pre,
\* which is 100 - 100*post/pre rounded up to the next integer, and the
\* savings line is printed exactly when the figure is not 0.
C17_SavingsRoundedUp ==
    report.done =>
        LET pre == sizes[1]
            post == sizes[2]
            c == report.compression
        IN  /\ pre * (c - 1) < 100 * pre - 100 * post
            /\ 100 * pre - 100 * post <= pre * c
            /\ report.printed <=> c # 0
            /\ (pre = 1000 /\ post = 400) => (c = 60 /\ report.printed)
            /\ (pre = 1000 /\ post = 1000) => (c = 0 /\ ~report.printed)

C17_Witness ==
    /\ report.done
    /\ sizes = <<1000, 999>>
    /\ report.compression = 1
    /\ report.printed

\* C18: the recipe a run has written holds the descriptor's memory value
\* divided by 1024, remainder dropped (131072 gives 128, 1500 gives 1, no
\* memory element gives 64), and the descriptor's vcpu value (1 when there
\* is no vcpu element); both are positive.
C18_SizingPositive ==
    \A r \in Active :
        run[r].wrote =>
            LET rcp == recipes[run[r].sinfonia_uuid]
                domain == run[r].package
            IN  /\ domain.memory = NoText => rcp.memory = 64
                /\ domain.memory = <<"1", "3", "1", "0", "7", "2">> => rcp.memory = 128
                /\ domain.memory = <<"1", "5", "0", "0">> => rcp.memory = 1
                /\ domain.vcpu = NoText => rcp.cpu = 1
                /\ domain.vcpu = <<"2">> => rcp.cpu = 2
                /\ rcp.cpu > 0
                /\ rcp.memory > 0

\* C19: whatever the probes' outcomes, stage2 leaves Polling only for
\* Connected: it has not ended, with any status, unless it read the RFB
\* preamble before.
C19_PollingEndsOnlyByConnecting ==
    /\ wpc = "Exited" => connects = 1
    /\ wexit # Running => connects = 1
    /\ outcome = "oserror" => wpc = "Polling"

\* Two locator texts spell the same host and path.
SameHostAndPath(a, b) ==
    \E c \in Parts :
        /\ LocatorText(c) = a
        /\ \E d \in Parts :
              /\ c.host = d.host
              /\ c.path = d.path
              /\ LocatorText(d) = b

\* The later run has opened the recipe file of the earlier run's identity.
ReplacingEarlier ==
    /\ run["B"].sinfonia_uuid = run["A"].sinfonia_uuid
    /\ run["B"].pc = "write" \/ run["B"].wrote

\* C20: in convert runs made one after the other, each run uses one
\* identity for the image tag, the recipe's containerDisk name and the
\* recipe's path; what a run has written stays as written to the end of
\* that run and beyond, until a later run for a locator with the same host
\* and path opens the same path and replaces it with its own recipe; a run
\* for another identity leaves it alone, and no other recipe is touched.
C20_IdentityIsTheKey ==
    /\ \A u \in Identities :
         recipes[u] \notin {NoRecipe, OldRecipe, EmptyFile} =>
            /\ recipes[u].name = u
            /\ \E r \in RunIds : run[r].wrote /\ run[r].sinfonia_uuid = u
    /\ \A tag \in Tags :
         (images[tag] # NoImage \/ pushed[tag] # NoImage) =>
            \E r \in RunIds : Built(r) /\ tag = TagOf(r)
    /\ \A u \in Identities :
         recipes[u] \notin {NoRecipe, OldRecipe} =>
            \E r \in RunIds :
                /\ run[r].sinfonia_uuid = u
                /\ run[r].pc \in {"write", "final", "exited"}
    /\ run["B"].wrote => recipes[run["B"].sinfonia_uuid] = RecipeOf("B")
    /\ (run["A"].wrote /\ ~ReplacingEarlier) =>
         recipes[run["A"].sinfonia_uuid] = RecipeOf("A")
    /\ run["B"].sinfonia_uuid # NoIdentity =>
         (SameHostAndPath(run["A"].args.url, run["B"].args.url)
            <=> run["B"].sinfonia_uuid = run["A"].sinfonia_uuid)

C20_Witness ==
    /\ run["A"].wrote
    /\ run["B"].wrote
    /\ run["B"].pc = "exited"
    /\ run["A"].args.url # run["B"].args.url
    /\ run["A"].sinfonia_uuid = run["B"].sinfonia_uuid
    /\ run["A"].package.vcpu # run["B"].package.vcpu
    /\ recipes[run["A"].sinfonia_uuid] = RecipeOf("B")
    /\ RecipeOf("A") # RecipeOf("B")
    /\ Published("B")

====
